---- MODULE Spec2Model ----
(***************************************************************************)
(* tripwirs: a file-integrity monitor.                                     *)
(*                                                                         *)
(*   crypto.rs    the ChaCha20-Poly1305 envelope with a nonce counter that *)
(*                is persisted as a 16-byte big-endian file suffix         *)
(*   tripwirs.rs  the stack-based tree walk, the database builder (gen_db) *)
(*                and the comparator (compare_db)                          *)
(*   config.rs    the Config with its secret, and the parser of the plain  *)
(*                policy file (gen_config)                                 *)
(*                                                                         *)
(* A u128 is held as its 16 little-endian bytes (index 1 is the least      *)
(* significant byte), so that the counter arithmetic keeps its full width. *)
(* The AEAD is ideal: a sealed frame opens if and only if it is opened     *)
(* with the key and the nonce it was sealed with.                          *)
(***************************************************************************)
EXTENDS Integers, Sequences, FiniteSets, TLC

VARIABLES
    disk,       \* crypto.rs: envelope path -> file content
    written,    \* what save_encrypted last wrote at each path: the file, and
                \* the record and passphrase it was given
    last,       \* the last envelope operation: its arguments, its outcome, the
                \* file it found (before) and what save_encrypted had last
                \* written there (w)
    nsaves,     \* number of save_encrypted calls so far
    tree,       \* the scanned file system: path -> node
    policy,     \* Config: scans and ignores
    dbfile,     \* tripwirs.rs: the database file written by gen_db
    pc,         \* position of the running command: "idle", "gen", "cmp"
                \* or "cfg"
    run,        \* the command run last: its name, passphrase and outcome
    roots,      \* the entries of config.scans still to walk
    pathstack,  \* the walk's stack of paths
    db,         \* the HashMap<String, NodeType> of the running command
    events,     \* the lines the command printed, in order
    visits,     \* the entries the command's walks popped, in order: the path,
                \* how the walk classified it, what the database held for it
                \* (compare_db) and the line printed for it
    snapshot,   \* the tree as it was when gen_db wrote dbfile
    genpolicy,  \* the policy gen_db ran under when it wrote dbfile
    walk,       \* the call of scan_path / compare_path last entered: its
                \* root, and how many entries the command had popped before
    infile,     \* config.rs gen_config: the characters of the plain policy file
    fd,         \* the characters of infile that read_line has not read yet
    current_type, \* the ActionType entries are added under: "Scan" or "Ignore"
    config      \* the Config gen_config is filling

cvars == <<disk, written, last, nsaves>>
evars == <<tree, policy, dbfile, pc, run, roots, pathstack, db, events,
           visits, snapshot, genpolicy, walk>>
gvars == <<infile, fd, current_type, config>>
vars == <<disk, written, last, nsaves, tree, policy, dbfile, pc, run, roots,
          pathstack, db, events, visits, snapshot, genpolicy, walk, infile,
          fd, current_type, config>>

(***************************************************************************)
(* Bounds of the model.                                                    *)
(***************************************************************************)
MaxSaves == 3

(***************************************************************************)
(* u128 arithmetic on 16 little-endian bytes.                              *)
(***************************************************************************)
KeyLen == 32
NonceLen == 12
U128Len == 16

Byte == 0..255

U128Zero == [i \in 1..U128Len |-> 0]
U128One == [i \in 1..U128Len |-> IF i = 1 THEN 1 ELSE 0]
U128Max == [i \in 1..U128Len |-> 255]

\* (1u128 << 96) - 1
NonceMax == [i \in 1..U128Len |-> IF i <= NonceLen THEN 255 ELSE 0]

\* u128::from_be_bytes: the file holds the most significant byte first
from_be_bytes(b) == [i \in 1..U128Len |-> b[U128Len + 1 - i]]

\* u128::to_be_bytes
to_be_bytes(c) == [i \in 1..U128Len |-> c[U128Len + 1 - i]]

RECURSIVE Carry(_, _)
Carry(c, i) ==
    IF i > U128Len THEN c
    ELSE IF c[i] = 255 THEN Carry([c EXCEPT ![i] = 0], i + 1)
    ELSE [c EXCEPT ![i] = c[i] + 1]

\* c + 1 on a u128.  The addition overflows only at u128::MAX: a build with
\* overflow checks panics there, a build without them wraps to 0.
AddOne(c, ovf) ==
    IF c = U128Max /\ ovf = "panic" THEN [panic |-> TRUE, v |-> c]
    ELSE [panic |-> FALSE, v |-> Carry(c, 1)]

\* c > (1u128 << 96) - 1
ExceedsNonceMax(c) == \E i \in (NonceLen + 1)..U128Len : c[i] # 0

RECURSIVE LessFrom(_, _, _)
LessFrom(a, b, i) ==
    IF i = 0 THEN FALSE
    ELSE IF a[i] # b[i] THEN a[i] < b[i]
    ELSE LessFrom(a, b, i - 1)

\* a < b as u128
U128Less(a, b) == LessFrom(a, b, U128Len)

(***************************************************************************)
(* Passphrases are byte strings; the records sealed are database maps.     *)
(***************************************************************************)
PassAbc == <<97, 98, 99>>
PassAbd == <<97, 98, 100>>
\* "abcabc...ab": the 32 bytes "abc" is length-fit to
PassAbc32 == [i \in 1..KeyLen |-> 97 + ((i - 1) % 3)]
\* a 33-byte passphrase with the same first 32 bytes
PassAbc33 == PassAbc32 \o <<120>>
PassEmpty == <<>>

Passphrases == {PassAbc, PassAbd, PassAbc32, PassAbc33, PassEmpty}

\* enum NodeType { F(u64), D }
NodeF(h) == [t |-> "F", h |-> h]
NodeD == [t |-> "D", h |-> 0]

EmptyDb == [k \in {} |-> NodeD]

\* bincode::encode_to_vec of a map: the entry count, then the key/value
\* pairs in the map's iteration order
Encode(m) ==
    LET n == Cardinality(DOMAIN m)
        order == CHOOSE s \in [1..n -> DOMAIN m] :
                     \A i, j \in 1..n : i # j => s[i] # s[j]
    IN  [count |-> n, elems |-> [i \in 1..n |-> <<order[i], m[order[i]]>>]]

\* bincode::decode_from_slice: rebuilds the map from the pairs
Decode(b) ==
    [k \in {b.elems[i][1] : i \in 1..b.count} |->
        b.elems[CHOOSE i \in 1..b.count : b.elems[i][1] = k][2]]

(***************************************************************************)
(* crypto.rs                                                               *)
(***************************************************************************)
TagLen == 16

\* FixedNonceSequence::advance resetting the counter to 0, not 1, when it
\* passes 2^96 - 1
advance_wraps_to_zero(counter, ovf) ==
    LET a == AddOne(counter, ovf)
        c == IF ExceedsNonceMax(a.v) THEN U128Zero ELSE a.v
    IN  [panic |-> a.panic,
         counter |-> IF a.panic THEN counter ELSE c,
         nonce |-> SubSeq(c, 1, NonceLen)]

\* FixedNonceSequence::advance: increments the counter behind the &mut u128,
\* wraps it to 1 above 2^96 - 1, and yields its low 12 little-endian bytes
advance(counter, ovf) ==
    LET a == AddOne(counter, ovf)
        c == IF ExceedsNonceMax(a.v) THEN U128One ELSE a.v
    IN  [panic |-> a.panic,
         counter |-> IF a.panic THEN counter ELSE c,
         nonce |-> SubSeq(c, 1, NonceLen)]

\* the while loop of get_compatible_passphrase; it makes no progress, and so
\* never ends, when it appends nothing
RECURSIVE ExtendLoop(_, _)
ExtendLoop(s, orig_len) ==
    IF Len(s) = KeyLen THEN [halts |-> TRUE, key |-> s]
    ELSE LET nl == IF Len(s) + orig_len < KeyLen THEN orig_len
                   ELSE KeyLen - Len(s)
         IN  IF nl = 0 THEN [halts |-> FALSE, key |-> s]
             ELSE ExtendLoop(s \o SubSeq(s, 1, nl), orig_len)

\* get_compatible_passphrase padding a short passphrase with zero bytes
\* instead of repeating it
get_compatible_passphrase_zero_pad(passphrase) ==
    [halts |-> TRUE,
     key |-> [i \in 1..KeyLen |->
                 IF i <= Len(passphrase) THEN passphrase[i] ELSE 0]]

get_compatible_passphrase(passphrase) ==
    IF Len(passphrase) < KeyLen THEN ExtendLoop(passphrase, Len(passphrase))
    ELSE [halts |-> TRUE, key |-> SubSeq(passphrase, 1, KeyLen)]

\* A file: the sealed frame (ciphertext and tag, held as the key and nonce it
\* was sealed under and its plaintext), then the trailing bytes.
NoFile == [exists |-> FALSE, key |-> <<>>, nonce |-> <<>>,
           pt |-> Encode(EmptyDb), tail |-> <<>>]

Blob(key, nonce, pt, tail) ==
    [exists |-> TRUE, key |-> key, nonce |-> nonce, pt |-> pt, tail |-> tail]

\* fd.metadata()?.len() / data.len(): one byte per encoded entry and for the
\* count, the tag, and the trailing bytes; a file that holds no sealed bytes
\* (no key) has only its trailing bytes
FileLen(f) ==
    (IF f.key = <<>> THEN 0 ELSE 1 + f.pt.count + TagLen) + Len(f.tail)

\* OpeningKey::open_in_place
Opens(f, key, nonce) == f.key = key /\ f.nonce = nonce

Failed(res) == [res |-> res, nonce |-> U128Zero]

\* get_next_nonce_from_file never reading the counter of the existing file
get_next_nonce_always_zero(f, passphrase, ovf) ==
    [res |-> "Ok", nonce |-> U128Zero]

\* get_next_nonce_from_file returning the counter as the open left it,
\* without the final + 1
get_next_nonce_no_increment(f, passphrase, ovf) ==
    IF ~f.exists THEN [res |-> "Ok", nonce |-> U128Zero]
    ELSE
        LET k == get_compatible_passphrase(passphrase)
            a == advance(from_be_bytes(f.tail), ovf)
        IN  IF ~k.halts THEN Failed("Hang")
            ELSE IF a.panic THEN Failed("Panic")
            ELSE IF ~Opens(f, k.key, a.nonce)
                 THEN Failed("CannotGetNonceFromExistingFile")
            ELSE [res |-> "Ok", nonce |-> a.counter]

get_next_nonce_from_file(f, passphrase, ovf) ==
    IF ~f.exists THEN [res |-> "Ok", nonce |-> U128Zero]
    ELSE IF FileLen(f) < U128Len THEN Failed("CannotGetNonceFromExistingFile")
    ELSE
        LET k == get_compatible_passphrase(passphrase)
            a == advance(from_be_bytes(f.tail), ovf)
            n == AddOne(a.counter, ovf)
        IN  IF ~k.halts THEN Failed("Hang")
            \* the file ends inside the sealed bytes: the 16 bytes popped
            \* are not a counter and what is left is no whole frame
            ELSE IF Len(f.tail) < U128Len
                 THEN Failed("CannotGetNonceFromExistingFile")
            ELSE IF a.panic THEN Failed("Panic")
            ELSE IF ~Opens(f, k.key, a.nonce)
                 THEN Failed("CannotGetNonceFromExistingFile")
            ELSE IF n.panic THEN Failed("Panic")
            ELSE [res |-> "Ok", nonce |-> n.v]

\* save_encrypted writing the counter as the seal left it (nonce) instead of
\* first_nonce
save_encrypted_suffix_after_seal(obj, f, passphrase, ovf) ==
    LET data == Encode(obj)
        k == get_compatible_passphrase(passphrase)
        nx == get_next_nonce_from_file(f, passphrase, ovf)
        a == advance(nx.nonce, ovf)
    IN  IF ~k.halts THEN [res |-> "Hang", file |-> f]
        ELSE IF nx.res # "Ok" THEN [res |-> nx.res, file |-> f]
        ELSE IF a.panic THEN [res |-> "Panic", file |-> f]
        ELSE [res |-> "Ok",
              file |-> Blob(k.key, a.nonce, data, to_be_bytes(a.counter))]

save_encrypted(obj, f, passphrase, ovf) ==
    LET data == Encode(obj)
        k == get_compatible_passphrase(passphrase)
        nx == get_next_nonce_from_file(f, passphrase, ovf)
        first_nonce == nx.nonce
        a == advance(first_nonce, ovf)
    IN  IF ~k.halts THEN [res |-> "Hang", file |-> f]
        ELSE IF nx.res # "Ok" THEN [res |-> nx.res, file |-> f]
        ELSE IF a.panic THEN [res |-> "Panic", file |-> f]
        ELSE [res |-> "Ok",
              file |-> Blob(k.key, a.nonce, data, to_be_bytes(first_nonce))]

\* read_decrypted opening with the trailing value itself, not advanced
read_decrypted_raw_nonce(f, passphrase, ovf) ==
    IF ~f.exists THEN [res |-> "IoError", obj |-> EmptyDb]
    ELSE
        LET k == get_compatible_passphrase(passphrase)
        IN  IF ~k.halts THEN [res |-> "Hang", obj |-> EmptyDb]
            ELSE IF ~Opens(f, k.key, SubSeq(from_be_bytes(f.tail), 1, NonceLen))
                 THEN [res |-> "WrongPassphrase", obj |-> EmptyDb]
            ELSE [res |-> "Ok", obj |-> Decode(f.pt)]

read_decrypted(f, passphrase, ovf) ==
    IF ~f.exists THEN [res |-> "IoError", obj |-> EmptyDb]
    ELSE IF FileLen(f) < U128Len
         THEN [res |-> "EncryptedDataTooShort", obj |-> EmptyDb]
    ELSE
        LET k == get_compatible_passphrase(passphrase)
            a == advance(from_be_bytes(f.tail), ovf)
        IN  IF ~k.halts THEN [res |-> "Hang", obj |-> EmptyDb]
            ELSE IF Len(f.tail) < U128Len
                 THEN [res |-> "WrongPassphrase", obj |-> EmptyDb]
            ELSE IF a.panic THEN [res |-> "Panic", obj |-> EmptyDb]
            ELSE IF ~Opens(f, k.key, a.nonce)
                 THEN [res |-> "WrongPassphrase", obj |-> EmptyDb]
            ELSE [res |-> "Ok", obj |-> Decode(f.pt)]

(***************************************************************************)
(* tripwirs.rs: the file system the walk sees.                             *)
(***************************************************************************)
TreePaths == {"/t", "/t/a", "/t/s", "/t/s/b"}

\* the directory an entry is listed in
Parent(p) ==
    CASE p = "/t/a" -> "/t"
      [] p = "/t/s" -> "/t"
      [] p = "/t/s/b" -> "/t/s"
      [] OTHER -> ""

\* A node: nothing, a regular file with content c, a directory, or a symbolic
\* link to path `to`; r tells whether it can be opened for reading.
Absent == [k |-> "none", c |-> 0, to |-> "", r |-> TRUE]
RegularFile(c) == [k |-> "file", c |-> c, to |-> "", r |-> TRUE]
UnreadableFile(c) == [k |-> "file", c |-> c, to |-> "", r |-> FALSE]
Directory == [k |-> "dir", c |-> 0, to |-> "", r |-> TRUE]
UnreadableDirectory == [k |-> "dir", c |-> 0, to |-> "", r |-> FALSE]
SymbolicLink(to) == [k |-> "link", c |-> 0, to |-> to, r |-> TRUE]

NoTree == [p \in TreePaths |-> Absent]

\* The trees: /t is a directory; /t/a is absent, a file, an empty directory
\* or a link to /t/s/b; /t/s is absent, a file or a directory; /t/s/b, in the
\* directory /t/s, is absent, a file or an empty directory.
LeafNodes == {Absent, RegularFile(1), RegularFile(2), Directory}
Trees ==
    {[p \in TreePaths |->
        CASE p = "/t" -> Directory
          [] p = "/t/a" -> a
          [] p = "/t/s" -> sb[1]
          [] p = "/t/s/b" -> sb[2]] :
     a \in LeafNodes \cup {UnreadableFile(1), SymbolicLink("/t/s/b")},
     sb \in ({Absent, RegularFile(1), UnreadableDirectory} \X {Absent})
            \cup ({Directory} \X LeafNodes)}

\* the entries a directory lists
Children(tr, p) == {q \in TreePaths : Parent(q) = p /\ tr[q].k # "none"}

\* the path a path names once a symbolic link is followed; "" when it names
\* nothing
ResolvePath(tr, p) ==
    IF p \notin TreePaths \/ tr[p].k = "none" THEN ""
    ELSE IF tr[p].k # "link" THEN p
    ELSE IF tr[p].to \in TreePaths /\ tr[tr[p].to].k \in {"file", "dir"}
         THEN tr[p].to
    ELSE ""

\* Path::is_file: follows symbolic links
is_file(tr, p) ==
    LET t == ResolvePath(tr, p) IN t # "" /\ tr[t].k = "file"

\* Path::read_dir yielding no entry for any directory it can read
read_dir_lists_nothing(tr, p) ==
    LET t == ResolvePath(tr, p)
    IN  IF t = "" \/ tr[t].k # "dir" \/ ~tr[t].r
        THEN [ok |-> FALSE, entries |-> {}]
        ELSE [ok |-> TRUE, entries |-> {}]

\* Path::read_dir: follows symbolic links; the entries carry the path they
\* were listed under (a link's target has no entries in these trees)
read_dir(tr, p) ==
    LET t == ResolvePath(tr, p)
    IN  IF t = "" \/ tr[t].k # "dir" \/ ~tr[t].r
        THEN [ok |-> FALSE, entries |-> {}]
        ELSE [ok |-> TRUE, entries |-> IF t = p THEN Children(tr, p) ELSE {}]

\* Xxh3 of a content: a stand-in mixing function, of which only the equality
\* of two hashes matters
Xxh3(content) == (content * 40503 + 12345) % 65536

\* get_filehash: File::open, then the content streamed through Xxh3::new()
get_filehash(tr, p) ==
    LET t == ResolvePath(tr, p)
    IN  IF t = "" \/ ~tr[t].r THEN [ok |-> FALSE, hash |-> 0]
        ELSE [ok |-> TRUE, hash |-> Xxh3(tr[t].c)]

\* struct Config { scans: Vec<String>, ignores: HashSet<String> }
Config(scans, ignores) == [scans |-> scans, ignores |-> ignores]
NoPolicy == Config(<<>>, {})

Policies ==
    {Config(<<"/t">>, {}),
     Config(<<"/t", "/t">>, {}),
     Config(<<"/t/s", "/t">>, {}),
     Config(<<"/t">>, {"/t/s"}),
     Config(<<"/t">>, {"/t/a"})}

\* the walk never consulting the ignore set
contains_nothing(ignores, e_str) == FALSE

\* config.ignores.contains(e_str): exact equality with a listed string
contains(ignores, e_str) == e_str \in ignores

\* HashMap::insert and HashMap::remove
Insert(m, k, v) == [x \in (DOMAIN m) \cup {k} |-> IF x = k THEN v ELSE m[x]]
Remove(m, k) == [x \in (DOMAIN m) \ {k} |-> m[x]]

\* the sequences that list the elements of S once each
Orders(S) ==
    {o \in [1..Cardinality(S) -> S] :
        \A i, j \in 1..Cardinality(S) : i # j => o[i] # o[j]}

(***************************************************************************)
(* tripwirs.rs: its own envelope (AES-256-GCM, the nonce sequence starting *)
(* at 0 for every file, no trailing nonce).                                *)
(***************************************************************************)
\* tripwirs.rs FixedNonceSequence::advance, on the (first, second) pair
TwAdvance(seq) ==
    LET first == (seq[1] + 1) % 65536
    IN  <<first, IF first = 0 THEN seq[2] + 1 ELSE seq[2]>>

\* FixedNonceSequence::new, then the one advance of a seal or an open
TwFirstNonce == TwAdvance(<<0, 0>>)

RECURSIVE TwExtendLoop(_, _)
TwExtendLoop(s, passphrase) ==
    IF Len(s) = KeyLen THEN [halts |-> TRUE, key |-> s]
    ELSE LET nl == IF Len(s) + Len(passphrase) < KeyLen THEN Len(passphrase)
                   ELSE KeyLen - Len(s)
         IN  IF nl = 0 THEN [halts |-> FALSE, key |-> s]
             ELSE TwExtendLoop(s \o SubSeq(passphrase, 1, nl), passphrase)

get_aes_256_compatible_passphrase(passphrase) ==
    IF Len(passphrase) < KeyLen THEN TwExtendLoop(passphrase, passphrase)
    ELSE [halts |-> TRUE, key |-> SubSeq(passphrase, 1, KeyLen)]

\* tripwirs.rs save_encrypted: the file it creates
TwSaveEncrypted(obj, passphrase) ==
    Blob(get_aes_256_compatible_passphrase(passphrase).key, TwFirstNonce,
         Encode(obj), <<>>)

\* tripwirs.rs read_decrypted: an I/O error when the file cannot be opened, a
\* panic ("Could not decrypt data") when the frame does not open
TwReadDecrypted(f, passphrase) ==
    IF ~f.exists THEN [res |-> "IoError", obj |-> EmptyDb]
    ELSE IF ~Opens(f, get_aes_256_compatible_passphrase(passphrase).key,
                   TwFirstNonce)
         THEN [res |-> "Panic", obj |-> EmptyDb]
    ELSE [res |-> "Ok", obj |-> Decode(f.pt)]

EnginePassphrases == {PassAbc, PassAbd}

\* no call of scan_path / compare_path was entered yet
NoWalk == [root |-> "", start |-> 0]

NoRun == [cmd |-> "none", pass |-> PassEmpty, outcome |-> "none"]

(***************************************************************************)
(* The envelope files, and the operations on them.                         *)
(***************************************************************************)
EnvPaths == {"db"}

DbA == "/t/a" :> NodeF(1)
DbB == ("/t/a" :> NodeF(2)) @@ ("/t/s" :> NodeD)
Objects == {DbA, DbB}

\* 2^96 - 1 - d, for d < 256
BelowNonceMax(d) == [NonceMax EXCEPT ![1] = 255 - d]

\* Counter values a file can hold after many saves: 2^96 - 4, 2^96 - 2 and
\* 2^96 (every save adds 2 to the counter it finds, starting from 0).
SeedCounters == {BelowNonceMax(3), BelowNonceMax(1), Carry(NonceMax, 1)}

\* The file save_encrypted leaves when it starts from counter value c
Written(obj, passphrase, c) ==
    Blob(get_compatible_passphrase(passphrase).key, advance(c, "wrap").nonce,
         Encode(obj), to_be_bytes(c))

NoOp == [op |-> "none", path |-> "db", pass |-> PassEmpty, obj |-> EmptyDb,
         res |-> "Ok", before |-> NoFile,
         w |-> [file |-> NoFile, obj |-> EmptyDb, pass |-> PassEmpty]]

CryptoInit ==
    /\ \E f \in {NoFile} \cup {Written(DbA, PassAbc, c) : c \in SeedCounters} :
          /\ disk = [p \in EnvPaths |-> f]
          /\ written = [p \in EnvPaths |->
                           [file |-> f, obj |-> DbA, pass |-> PassAbc]]
    /\ last = NoOp
    /\ nsaves = 0
    /\ tree = NoTree
    /\ policy = NoPolicy
    /\ dbfile = NoFile
    /\ pc = "idle"
    /\ run = NoRun
    /\ roots = <<>>
    /\ pathstack = <<>>
    /\ db = EmptyDb
    /\ events = <<>>
    /\ visits = <<>>
    /\ snapshot = NoTree
    /\ genpolicy = NoPolicy
    /\ walk = NoWalk
    /\ infile = <<>>
    /\ fd = <<>>
    /\ current_type = "Scan"
    /\ config = NoPolicy

\* save_encrypted(obj, path, passphrase)
SaveEncrypted(path, obj, passphrase, ovf) ==
    /\ nsaves < MaxSaves
    /\ LET r == save_encrypted(obj, disk[path], passphrase, ovf)
       IN  /\ disk' = [disk EXCEPT ![path] = r.file]
           /\ written' = IF r.res = "Ok"
                         THEN [written EXCEPT ![path] =
                                  [file |-> r.file, obj |-> obj, pass |-> passphrase]]
                         ELSE written
           /\ last' = [op |-> "save", path |-> path, pass |-> passphrase,
                       obj |-> obj, res |-> r.res, before |-> disk[path],
                       w |-> written[path]]
    /\ nsaves' = nsaves + 1
    /\ UNCHANGED <<evars, gvars>>

\* read_decrypted(path, passphrase)
ReadDecrypted(path, passphrase, ovf) ==
    /\ LET r == read_decrypted(disk[path], passphrase, ovf)
       IN  last' = [op |-> "read", path |-> path, pass |-> passphrase,
                    obj |-> r.obj, res |-> r.res, before |-> disk[path],
                    w |-> written[path]]
    /\ UNCHANGED <<disk, written, nsaves>>
    /\ UNCHANGED <<evars, gvars>>

\* bit j of byte b flipped
XorBit(b, j) == IF (b \div (2 ^ j)) % 2 = 1 THEN b - 2 ^ j ELSE b + 2 ^ j

\* bit `bit` (0 is the least significant) of a big-endian 16-byte value flipped
FlipBit(tail, bit) ==
    [tail EXCEPT ![U128Len - (bit \div 8)] = XorBit(@, bit % 8)]

\* The bits flipped: the ends of the two low bytes, the top bit of the 96-bit
\* nonce, the two bits above it, and the top bit of the u128.
FlipBits == {0, 1, 7, 8, 95, 96, 97, 127}

\* Somebody flips one bit of the trailing 16 bytes of a file save_encrypted wrote.
FlipNonceBit(path, bit) ==
    /\ disk[path].exists
    /\ disk[path] = written[path].file
    /\ disk' = [disk EXCEPT ![path].tail = FlipBit(@, bit)]
    /\ UNCHANGED <<written, last, nsaves>>
    /\ UNCHANGED <<evars, gvars>>

\* Other values the trailing 16 bytes can be overwritten with.
CorruptTails ==
    {to_be_bytes(c) : c \in {U128Zero, U128One, NonceMax, U128Max}}

\* Somebody overwrites the trailing 16 bytes of a file save_encrypted wrote.
CorruptNonce(path, tail) ==
    /\ disk[path].exists
    /\ disk[path] = written[path].file
    /\ tail # disk[path].tail
    /\ disk' = [disk EXCEPT ![path].tail = tail]
    /\ UNCHANGED <<written, last, nsaves>>
    /\ UNCHANGED <<evars, gvars>>

Overflow == {"panic", "wrap"}

CryptoNext ==
    \/ \E path \in EnvPaths, obj \in Objects, p \in Passphrases, ovf \in Overflow :
          SaveEncrypted(path, obj, p, ovf)
    \/ \E path \in EnvPaths, p \in Passphrases, ovf \in Overflow :
          ReadDecrypted(path, p, ovf)

\* The envelope operations, and somebody rewriting the trailing bytes between them
TamperNext ==
    \/ CryptoNext
    \/ \E path \in EnvPaths, bit \in FlipBits : FlipNonceBit(path, bit)
    \/ \E path \in EnvPaths, tail \in CorruptTails : CorruptNonce(path, tail)

Spec == CryptoInit /\ [][CryptoNext]_vars

\* The points at which save_encrypted can stop once the frame is sealed:
\* before File::create, after it, after write_all(&data), and inside the
\* write of the 16 counter bytes.
Stages == {"sealed_in_memory", "created", "data_written", "counter_half_written"}

\* the file a save that would leave `whole` leaves when it stops at a stage
Partial(before, whole, stage) ==
    CASE stage = "sealed_in_memory" -> before
      [] stage = "created" -> Blob(<<>>, <<>>, Encode(EmptyDb), <<>>)
      [] stage = "data_written" -> [whole EXCEPT !.tail = <<>>]
      [] stage = "counter_half_written" ->
             [whole EXCEPT !.tail = SubSeq(@, 1, U128Len \div 2)]

\* save_encrypted(obj, path, passphrase) stopped at a stage: the process is
\* killed, or the write returns an error
SaveInterrupted(path, obj, passphrase, ovf, stage) ==
    /\ nsaves < MaxSaves
    /\ LET r == save_encrypted(obj, disk[path], passphrase, ovf)
       IN  /\ r.res = "Ok"
           /\ disk' = [disk EXCEPT ![path] = Partial(disk[path], r.file, stage)]
           /\ last' = [op |-> "interrupted", path |-> path, pass |-> passphrase,
                       obj |-> obj, res |-> stage, before |-> disk[path],
                       w |-> written[path]]
    /\ nsaves' = nsaves + 1
    /\ UNCHANGED written
    /\ UNCHANGED <<evars, gvars>>

CrashNext ==
    \/ CryptoNext
    \/ \E path \in EnvPaths, obj \in Objects, p \in Passphrases,
          ovf \in Overflow, stage \in Stages :
          SaveInterrupted(path, obj, p, ovf, stage)

SpecCrash == CryptoInit /\ [][CrashNext]_vars

\* Tampering is followed from a path that holds no file yet.
TamperInit == CryptoInit /\ \A p \in EnvPaths : ~disk[p].exists

SpecTamper == TamperInit /\ [][TamperNext]_vars

(***************************************************************************)
(* Properties of the envelope.                                             *)
(***************************************************************************)
\* the counter value embedded at the end of a file
Suffix(f) == from_be_bytes(f.tail)

\* the 96-bit nonce a frame was sealed with, as a u128
NonceValue(f) == [i \in 1..U128Len |-> IF i <= NonceLen THEN f.nonce[i] ELSE 0]

\* c + 1, wrapping to 1 when it would exceed 2^96 - 1
WrapInc(c) == IF U128Less(c, NonceMax) THEN Carry(c, 1) ELSE U128One

U128Two == Carry(U128One, 1)
U128Three == Carry(U128Two, 1)

SavedOk == last.op = "save" /\ last.res = "Ok"

\* the operation found the file as save_encrypted had left it
Pristine == last.before = last.w.file

\* C1: a successful save over a file that an earlier save wrote under the same
\* passphrase embeds a strictly greater counter than that file's, as long as
\* both are below 2^96.
C1_NonceStrictlyIncreases ==
    (/\ SavedOk
     /\ last.before.exists
     /\ Pristine
     /\ ~ExceedsNonceMax(Suffix(last.before))
     /\ ~ExceedsNonceMax(Suffix(disk[last.path])))
    => U128Less(Suffix(last.before), Suffix(disk[last.path]))

\* the second save of a run that started without a file: 0, then 2
C1_Witness ==
    /\ SavedOk
    /\ Pristine
    /\ last.before.exists
    /\ Suffix(last.before) = U128Zero
    /\ Suffix(disk[last.path]) = U128Two
    /\ nsaves = 2

C4_RoundTrip ==
    (/\ last.op = "read"
     /\ last.before.exists
     /\ Pristine
     /\ last.pass = last.w.pass)
    => (last.res = "Ok" /\ last.obj = last.w.obj)

\* the read after the second save to the path, of the two-entry record
C4_Witness ==
    /\ last.op = "read"
    /\ Pristine
    /\ nsaves >= 2
    /\ last.pass = last.w.pass
    /\ last.w.obj = DbB
    /\ last.obj = DbB
    /\ last.res = "Ok"

\* the 32-byte repeat-or-truncate of a non-empty passphrase
LengthFit(p) ==
    [i \in 1..KeyLen |-> IF Len(p) >= KeyLen THEN p[i]
                         ELSE p[((i - 1) % Len(p)) + 1]]

\* C5: a file written under p opens under a (non-empty) p' exactly when the
\* length-fit of p' equals the length-fit of p, and fails with
\* WrongPassphrase otherwise.
C5_OpensIffSameLengthFit ==
    (/\ last.op = "read"
     /\ last.before.exists
     /\ Pristine
     /\ Len(last.pass) > 0)
    => IF LengthFit(last.pass) = LengthFit(last.w.pass)
       THEN last.res = "Ok"
       ELSE last.res = "WrongPassphrase"

\* "abc" sealed, "abcabc...ab" opens
C5_Witness ==
    /\ last.op = "read"
    /\ Pristine
    /\ last.w.pass = PassAbc
    /\ last.pass = PassAbc32
    /\ last.res = "Ok"
    /\ nsaves >= 1

\* f is the written file g with one bit of its trailing 16 bytes flipped
OneBitFlipped(f, g) ==
    /\ g.exists
    /\ \E bit \in FlipBits : f = [g EXCEPT !.tail = FlipBit(@, bit)]

\* C6: reading, with the right passphrase, a written file with one bit of its
\* trailing nonce flipped fails with WrongPassphrase.
C6_FlippedNonceBitRejected ==
    (/\ last.op = "read"
     /\ OneBitFlipped(last.before, last.w.file)
     /\ last.pass = last.w.pass)
    => last.res = "WrongPassphrase"

\* f is the written file g with other trailing 16 bytes
TailCorrupted(f, g) ==
    /\ g.exists
    /\ f.tail # g.tail
    /\ f = [g EXCEPT !.tail = f.tail]

\* C7: a save, with the right passphrase, over a written file whose trailing
\* 16 bytes were changed fails with CannotGetNonceFromExistingFile and leaves
\* the file as it was.  (A panic on the counter's overflow, which a build
\* with overflow checks raises for the trailing value u128::MAX, is let pass
\* here as a failed save.)
C7_CorruptedSuffixRefused ==
    (/\ last.op = "save"
     /\ TailCorrupted(last.before, last.w.file)
     /\ last.pass = last.w.pass)
    => (/\ last.res \in {"CannotGetNonceFromExistingFile", "Panic"}
        /\ disk[last.path] = last.before)

(***************************************************************************)
(* tripwirs.rs: gen_db and compare_db, one step per iteration of the walk. *)
(***************************************************************************)
Line(path, msg, old, new) == [path |-> path, msg |-> msg, old |-> old, new |-> new]

Visit(path, kind, popped, msg) ==
    [path |-> path, kind |-> kind, popped |-> popped, msg |-> msg]

\* db.remove(e_str): the value removed, or None
NoneValue == [t |-> "None", h |-> 0]
Popped(m, k) == IF k \in DOMAIN m THEN m[k] ELSE NoneValue

Top == pathstack[Len(pathstack)]
Rest == SubSeq(pathstack, 1, Len(pathstack) - 1)

EngineInit ==
    /\ disk = [p \in EnvPaths |-> NoFile]
    /\ written = [p \in EnvPaths |->
                     [file |-> NoFile, obj |-> EmptyDb, pass |-> PassEmpty]]
    /\ last = NoOp
    /\ nsaves = 0
    /\ tree \in Trees
    /\ policy \in Policies
    /\ dbfile = NoFile
    /\ pc = "idle"
    /\ run = NoRun
    /\ roots = <<>>
    /\ pathstack = <<>>
    /\ db = EmptyDb
    /\ events = <<>>
    /\ visits = <<>>
    /\ snapshot = NoTree
    /\ genpolicy = NoPolicy
    /\ walk = NoWalk
    /\ infile = <<>>
    /\ fd = <<>>
    /\ current_type = "Scan"
    /\ config = NoPolicy

\* gen_db is called: the database starts empty
GenDbStart(passphrase) ==
    /\ pc = "idle"
    /\ pc' = "gen"
    /\ run' = [cmd |-> "gen_db", pass |-> passphrase, outcome |-> "running"]
    /\ db' = EmptyDb
    /\ roots' = policy.scans
    /\ pathstack' = <<>>
    /\ events' = <<>>
    /\ visits' = <<>>
    /\ walk' = NoWalk
    /\ UNCHANGED <<tree, policy, dbfile, snapshot, genpolicy>>
    /\ UNCHANGED <<cvars, gvars>>

\* scan_path / compare_path is entered for the next root: the stack holds
\* the root
WalkRoot ==
    /\ pc \in {"gen", "cmp"}
    /\ pathstack = <<>>
    /\ roots # <<>>
    /\ pathstack' = <<Head(roots)>>
    /\ roots' = Tail(roots)
    /\ walk' = [root |-> Head(roots), start |-> Len(visits)]
    /\ UNCHANGED <<tree, policy, dbfile, pc, run, db, events, visits, snapshot, genpolicy>>
    /\ UNCHANGED <<cvars, gvars>>

\* one iteration of the while loop of scan_path
ScanStep ==
    /\ pc = "gen"
    /\ pathstack # <<>>
    /\ LET e == Top
           h == get_filehash(tree, e)
           d == read_dir(tree, e)
       IN  IF contains(policy.ignores, e) THEN
               /\ events' = Append(events, Line(e, "Skipping", 0, 0))
               /\ visits' = Append(visits, Visit(e, "Skip", NoneValue, ""))
               /\ pathstack' = Rest
               /\ UNCHANGED <<db, pc, run, roots>>
           ELSE IF is_file(tree, e) THEN
               IF h.ok THEN
                   /\ db' = Insert(db, e, NodeF(h.hash))
                   /\ visits' = Append(visits, Visit(e, "File", NoneValue, ""))
                   /\ pathstack' = Rest
                   /\ UNCHANGED <<events, pc, run, roots>>
               ELSE
                   \* get_filehash(e_str)? returns the error from scan_path
                   \* and from gen_db
                   /\ pc' = "idle"
                   /\ run' = [run EXCEPT !.outcome = "IoError"]
                   /\ visits' = Append(visits, Visit(e, "FileError", NoneValue, ""))
                   /\ pathstack' = <<>>
                   /\ roots' = <<>>
                   /\ UNCHANGED <<db, events>>
           ELSE IF ~d.ok THEN
               /\ visits' = Append(visits, Visit(e, "DirError", NoneValue, ""))
               /\ pathstack' = Rest
               /\ UNCHANGED <<db, events, pc, run, roots>>
           ELSE
               /\ \E order \in Orders(d.entries) : pathstack' = Rest \o order
               /\ IF d.entries = {} THEN
                      /\ db' = Insert(db, e, NodeD)
                      /\ events' = Append(events, Line(e, "[dir]", 0, 0))
                      /\ visits' = Append(visits,
                                      Visit(e, "EmptyDirectory", NoneValue, ""))
                  ELSE
                      /\ visits' = Append(visits, Visit(e, "Directory", NoneValue, ""))
                      /\ UNCHANGED <<db, events>>
               /\ UNCHANGED <<pc, run, roots>>
    /\ UNCHANGED <<tree, policy, dbfile, snapshot, genpolicy, walk>>
    /\ UNCHANGED <<cvars, gvars>>

\* gen_db after the last root: the database is saved
GenDbSave ==
    /\ pc = "gen"
    /\ pathstack = <<>>
    /\ roots = <<>>
    /\ dbfile' = TwSaveEncrypted(db, run.pass)
    /\ snapshot' = tree
    /\ genpolicy' = policy
    /\ pc' = "idle"
    /\ run' = [run EXCEPT !.outcome = "Ok"]
    /\ UNCHANGED <<tree, policy, roots, pathstack, db, events, visits, walk>>
    /\ UNCHANGED <<cvars, gvars>>

\* compare_db is called: the database is read from the file
CompareDbStart(passphrase) ==
    /\ pc = "idle"
    /\ LET r == TwReadDecrypted(dbfile, passphrase)
       IN  /\ pc' = IF r.res = "Ok" THEN "cmp" ELSE "idle"
           /\ run' = [cmd |-> "compare_db", pass |-> passphrase,
                      outcome |-> IF r.res = "Ok" THEN "running" ELSE r.res]
           /\ db' = r.obj
           /\ roots' = IF r.res = "Ok" THEN policy.scans ELSE <<>>
    /\ pathstack' = <<>>
    /\ events' = <<>>
    /\ visits' = <<>>
    /\ walk' = NoWalk
    /\ UNCHANGED <<tree, policy, dbfile, snapshot, genpolicy>>
    /\ UNCHANGED <<cvars, gvars>>

\* the line compare_path prints for a file, by the value db.remove returned
FileReport(e, popped, new_hash) ==
    CASE popped.t = "F" ->
             IF popped.h # new_hash
             THEN <<Line(e, "HASH CHANGED", popped.h, new_hash)>>
             ELSE <<>>
      [] popped.t = "D" -> <<Line(e, "FILE WAS PREVIOUSLY A DIRECTORY", 0, 0)>>
      [] OTHER -> <<Line(e, "NEW FILE", 0, 0)>>

\* the line compare_path prints for a directory without entries
EmptyDirReport(e, popped) ==
    CASE popped.t = "F" -> <<Line(e, "DIRECTORY IS NOW A FILE", 0, 0)>>
      [] popped.t = "D" -> <<>>
      [] OTHER -> <<Line(e, "NEW DIRECTORY", 0, 0)>>

MsgOf(report) == IF report = <<>> THEN "" ELSE report[1].msg

\* one iteration of the while loop of compare_path
CompareStep ==
    /\ pc = "cmp"
    /\ pathstack # <<>>
    /\ LET e == Top
           h == get_filehash(tree, e)
           d == read_dir(tree, e)
           popped == Popped(db, e)
       IN  IF contains(policy.ignores, e) THEN
               /\ events' = Append(events, Line(e, "Skipping", 0, 0))
               /\ visits' = Append(visits, Visit(e, "Skip", popped, ""))
               /\ pathstack' = Rest
               /\ UNCHANGED <<db, pc, run, roots>>
           ELSE IF is_file(tree, e) THEN
               IF popped.t = "F" /\ ~h.ok THEN
                   \* get_filehash(e_str)? returns the error from
                   \* compare_path and from compare_db
                   /\ db' = Remove(db, e)
                   /\ pc' = "idle"
                   /\ run' = [run EXCEPT !.outcome = "IoError"]
                   /\ visits' = Append(visits, Visit(e, "FileError", popped, ""))
                   /\ pathstack' = <<>>
                   /\ roots' = <<>>
                   /\ UNCHANGED events
               ELSE
                   /\ db' = Remove(db, e)
                   /\ events' = events \o FileReport(e, popped, h.hash)
                   /\ visits' = Append(visits,
                          Visit(e, "File", popped, MsgOf(FileReport(e, popped, h.hash))))
                   /\ pathstack' = Rest
                   /\ UNCHANGED <<pc, run, roots>>
           ELSE IF ~d.ok THEN
               /\ visits' = Append(visits, Visit(e, "DirError", popped, ""))
               /\ pathstack' = Rest
               /\ UNCHANGED <<db, events, pc, run, roots>>
           ELSE
               /\ \E order \in Orders(d.entries) : pathstack' = Rest \o order
               /\ IF d.entries = {} THEN
                      /\ db' = Remove(db, e)
                      /\ events' = events \o EmptyDirReport(e, popped)
                      /\ visits' = Append(visits,
                             Visit(e, "EmptyDirectory", popped,
                                   MsgOf(EmptyDirReport(e, popped))))
                  ELSE
                      /\ visits' = Append(visits, Visit(e, "Directory", popped, ""))
                      /\ UNCHANGED <<db, events>>
               /\ UNCHANGED <<pc, run, roots>>
    /\ UNCHANGED <<tree, policy, dbfile, snapshot, genpolicy, walk>>
    /\ UNCHANGED <<cvars, gvars>>

\* the lines compare_db prints for the entries left in the database
RemovedReport(m) ==
    LET order == CHOOSE o \in Orders(DOMAIN m) : TRUE
    IN  [i \in 1..Len(order) |->
            IF m[order[i]].t = "F"
            THEN Line(order[i], "FILE WITH HASH IS REMOVED", m[order[i]].h, 0)
            ELSE Line(order[i], "DIRECTORY IS REMOED", 0, 0)]

\* compare_db after the last root
CompareDbFinish ==
    /\ pc = "cmp"
    /\ pathstack = <<>>
    /\ roots = <<>>
    /\ events' = events \o RemovedReport(db)
    /\ pc' = "idle"
    /\ run' = [run EXCEPT !.outcome = "Ok"]
    /\ UNCHANGED <<tree, policy, dbfile, roots, pathstack, db, visits, snapshot,
                   genpolicy, walk>>
    /\ UNCHANGED <<cvars, gvars>>

\* Between gen_db and compare_db the tree is changed, once, into another tree.
ChangeTree(t) ==
    /\ pc = "idle"
    /\ dbfile.exists
    /\ tree = snapshot
    /\ run.cmd = "gen_db"
    /\ t # tree
    /\ tree' = t
    /\ UNCHANGED <<policy, dbfile, pc, run, roots, pathstack, db, events,
                   visits, snapshot, genpolicy, walk>>
    /\ UNCHANGED <<cvars, gvars>>

EngineNext ==
    \/ \E p \in EnginePassphrases : GenDbStart(p)
    \/ WalkRoot
    \/ ScanStep
    \/ GenDbSave
    \/ \E p \in EnginePassphrases : CompareDbStart(p)
    \/ CompareStep
    \/ CompareDbFinish
    \/ \E t \in Trees : ChangeTree(t)

SpecEngine == EngineInit /\ [][EngineNext]_vars

(***************************************************************************)
(* Properties of the builder and the comparator.                           *)
(***************************************************************************)
\* the diff lines among the lines printed (not "Skipping", not "[dir]")
IsDiff(l) == l.msg \notin {"Skipping", "[dir]"}
DiffEvents == SelectSeq(events, IsDiff)

ComparedOk == run.cmd = "compare_db" /\ run.outcome = "Ok"

\* C8: compare_db, run on the tree gen_db recorded, under the same policy,
\* prints no diff line.
C8_UnchangedTreeNoDiff ==
    (ComparedOk /\ tree = snapshot) => DiffEvents = <<>>

\* C9: during one compare_db run no two diff lines are about the same path.
C9_OneReportPerPath ==
    run.cmd = "compare_db" =>
        \A i, j \in 1..Len(DiffEvents) :
            i # j => DiffEvents[i].path # DiffEvents[j].path

\* the kind of a path as section 4.4 classifies it: a symbolic link (not
\* followed), a regular file, a directory without entries
ObservedKind(tr, p) ==
    CASE tr[p].k = "link" -> "Symlink"
      [] tr[p].k = "file" /\ tr[p].r -> "File"
      [] tr[p].k = "dir" /\ tr[p].r /\ Children(tr, p) = {} -> "EmptyDirectory"
      [] OTHER -> "Other"

\* the report of the table of section 4.5 ("" is silence)
TableReport(kind, popped, new_hash) ==
    CASE kind = "Symlink" /\ popped.t = "None" -> "NEW SYMLINK"
      [] kind = "Symlink" /\ popped.t = "F" -> "SYMLINK WAS PREVIOUSLY A FILE"
      [] kind = "Symlink" /\ popped.t = "D" -> "SYMLINK WAS PREVIOUSLY A DIRECTORY"
      [] kind = "File" /\ popped.t = "None" -> "NEW FILE"
      [] kind = "File" /\ popped.t = "F" ->
             IF popped.h = new_hash THEN "" ELSE "HASH CHANGED"
      [] kind = "File" /\ popped.t = "D" -> "FILE WAS PREVIOUSLY A DIRECTORY"
      [] kind = "EmptyDirectory" /\ popped.t = "None" -> "NEW DIRECTORY"
      [] kind = "EmptyDirectory" /\ popped.t = "D" -> ""
      [] kind = "EmptyDirectory" /\ popped.t = "F" -> "FILE IS NOW A DIRECTORY"

\* C10: for every entry compare_db visits that is a symbolic link, a file or
\* an empty directory, the line printed is the one the table gives for the
\* observed kind and the value the database held for the path.
C10_KindTransitionTable ==
    run.cmd = "compare_db" =>
        \A i \in 1..Len(visits) :
            LET v == visits[i]
                kind == ObservedKind(tree, v.path)
            IN  (v.kind # "Skip" /\ kind # "Other") =>
                    v.msg = TableReport(kind, v.popped, Xxh3(tree[v.path].c))

\* the kind of a path as the walk of section 4.4 tests it, links not
\* followed: a symbolic link, a regular file, a directory that lists no entry
LstatKind(tr, p) ==
    CASE tr[p].k = "link" -> "Symlink"
      [] tr[p].k = "file" -> "File"
      [] tr[p].k = "dir" /\ tr[p].r /\ Children(tr, p) = {} -> "EmptyDirectory"
      [] OTHER -> "Other"

\* the database compare_db read from the file
Recorded == Decode(dbfile.pt)

\* the paths the walk popped, not ignored, that are a file, a symbolic link
\* or an empty directory
VisitedAsEntry ==
    {p \in TreePaths :
        /\ \E i \in 1..Len(visits) : visits[i].path = p /\ visits[i].kind # "Skip"
        /\ LstatKind(tree, p) # "Other"}

\* the line section 4.5 gives for a key left in the database
RemovedLine(k, v) ==
    IF v.t = "F" THEN Line(k, "FILE WITH HASH IS REMOVED", v.h, 0)
    ELSE Line(k, "DIRECTORY IS REMOVED", 0, 0)

\* the lines printed about path k that tell of a removal
RemovalLines(k) ==
    {i \in 1..Len(events) :
        /\ events[i].path = k
        /\ events[i].msg \in {"FILE WITH HASH IS REMOVED", "DIRECTORY IS REMOVED",
                              "DIRECTORY IS REMOED"}}

\* C11: when compare_db has walked all roots, the keys left in the database
\* are the recorded paths not visited as a file, a symbolic link or an empty
\* directory, and each is reported once, as REMOVED with its recorded kind
\* (and hash).
C11_RemovalResidue ==
    ComparedOk =>
        /\ DOMAIN db = (DOMAIN Recorded) \ VisitedAsEntry
        /\ \A k \in DOMAIN db :
              /\ Cardinality(RemovalLines(k)) = 1
              /\ \A i \in RemovalLines(k) : events[i] = RemovedLine(k, Recorded[k])

\* the paths the running command has popped and not skipped
Walked == {visits[i].path : i \in {j \in 1..Len(visits) : visits[j].kind # "Skip"}}

\* C12: an ignored path is never a key of the database gen_db builds or
\* saves, no diff line of compare_db is about it, and nothing is reached
\* through it.
C12_IgnoreExactness ==
    \A p \in policy.ignores :
        /\ p \notin DOMAIN db
        /\ dbfile.exists => p \notin DOMAIN Recorded
        /\ \A i \in 1..Len(DiffEvents) : DiffEvents[i].path # p
        /\ p \notin Walked
        /\ \A q \in Walked : Parent(q) # p

\* compare_db has skipped an ignored directory that holds an entry, in a tree
\* changed since gen_db
C12_Witness ==
    /\ ComparedOk
    /\ tree # snapshot
    /\ \E p \in policy.ignores :
          /\ tree[p].k = "dir"
          /\ Children(tree, p) # {}
          /\ Children(tree, p) # Children(snapshot, p)
          /\ \E i \in 1..Len(visits) : visits[i].path = p /\ visits[i].kind = "Skip"

\* a walk has met a file it could not hash
HashFailed == \E i \in 1..Len(visits) : visits[i].kind = "FileError"

\* C13: a file that cannot be hashed does not end the command with an error:
\* gen_db skips it and still writes the database, compare_db goes on.
C13_HashErrorDoesNotAbort ==
    (run.cmd \in {"gen_db", "compare_db"} /\ HashFailed) =>
        /\ run.outcome # "IoError"
        /\ (pc = "idle" /\ run.cmd = "gen_db") =>
              /\ dbfile = TwSaveEncrypted(db, run.pass)
              /\ \A i \in 1..Len(visits) :
                    visits[i].kind = "FileError" => visits[i].path \notin DOMAIN db

\* C14: while a walk runs, every entry it popped (and did not skip) that is a
\* symbolic link was classified Symlink, and gen_db recorded it with kind
\* Symlink (tag "S"), whatever the link points to.
C14_SymlinkNotFollowed ==
    pc \in {"gen", "cmp"} =>
        \A i \in 1..Len(visits) :
            LET v == visits[i]
            IN  (v.kind # "Skip" /\ tree[v.path].k = "link") =>
                    /\ v.kind = "Symlink"
                    /\ pc = "gen" => (v.path \in DOMAIN db /\ db[v.path].t = "S")

\* the byte the length-fit of section 4.1 puts at position i
CyclicByte(p, i) ==
    IF Len(p) < KeyLen THEN p[((i - 1) % Len(p)) + 1] ELSE p[i]

\* C15: for the passphrase of every save or open, empty or not,
\* get_compatible_passphrase ends and gives 32 bytes: the passphrase repeated
\* cyclically, or its first 32 bytes.
C15_LengthFitTerminates ==
    last.op # "none" =>
        LET k == get_compatible_passphrase(last.pass)
        IN  /\ k.halts
            /\ last.res # "Hang"
            /\ Len(k.key) = KeyLen
            /\ \A i \in 1..KeyLen : k.key[i] = CyclicByte(last.pass, i)

\* the counter is in 1..2^96-1
InNonceRange(c) == c # U128Zero /\ ~ExceedsNonceMax(c)

\* C18: every file save_encrypted wrote was sealed with a nonce other than 0,
\* and the advance that opens it, from the counter the file holds, gives a
\* counter in 1..2^96-1 (1 when the increment passes 2^96-1), never nonce 0,
\* with or without overflow checks.
C18_NonceNeverZero ==
    \A p \in EnvPaths :
        disk[p].exists =>
            /\ NonceValue(disk[p]) # U128Zero
            /\ \A ovf \in Overflow :
                  LET a == advance(Suffix(disk[p]), ovf)
                  IN  /\ ~a.panic
                      /\ InNonceRange(a.counter)
                      /\ a.nonce = SubSeq(a.counter, 1, NonceLen)
                      /\ a.nonce = disk[p].nonce
                      /\ ExceedsNonceMax(Carry(Suffix(disk[p]), 1)) =>
                             a.counter = U128One

\* a save found counter 2^96-2 in the file, wrote 2^96 as the new counter and
\* sealed with the nonce the wrap gives, 1
C18_Witness ==
    /\ SavedOk
    /\ last.before.exists
    /\ Suffix(last.before) = BelowNonceMax(1)
    /\ Suffix(disk[last.path]) = Carry(NonceMax, 1)
    /\ NonceValue(disk[last.path]) = U128One

\* what a path is once a symbolic link is followed, as is_file and read_dir
\* see it
FollowKind(tr, p) ==
    LET t == ResolvePath(tr, p) IN IF t = "" THEN "none" ELSE tr[t].k

\* the path is a directory that can be enumerated and lists no entry
EmptyListing(tr, p) ==
    LET t == ResolvePath(tr, p)
    IN  /\ t # ""
        /\ tr[t].k = "dir"
        /\ tr[t].r
        /\ Children(tr, t) = {}

GenDbOk == run.cmd = "gen_db" /\ run.outcome = "Ok"

\* C19: in the database gen_db built and saved, a path has kind D exactly
\* when the walk reached it, it is not ignored and it is a directory whose
\* enumeration gave no entry; a directory with an entry is no key; every
\* other key is a file the walk reached, not ignored, with the hash of its
\* content.
C19_OnlyEmptyDirsRecorded ==
    GenDbOk =>
        /\ Recorded = db
        /\ DOMAIN db \subseteq TreePaths
        /\ \A p \in TreePaths :
              /\ (p \in DOMAIN db /\ db[p] = NodeD) <=>
                     (/\ p \in Walked
                      /\ p \notin policy.ignores
                      /\ EmptyListing(snapshot, p))
              /\ (FollowKind(snapshot, p) = "dir" /\ Children(snapshot, p) # {}) =>
                     p \notin DOMAIN db
              /\ (p \in DOMAIN db /\ db[p] # NodeD) =>
                     (/\ FollowKind(snapshot, p) = "file"
                      /\ p \in Walked
                      /\ p \notin policy.ignores
                      /\ db[p] = NodeF(Xxh3(snapshot[ResolvePath(snapshot, p)].c)))

\* gen_db has walked a directory with an entry, recorded an empty directory
\* below it and recorded a file
C19_Witness ==
    /\ GenDbOk
    /\ "/t/s" \in Walked
    /\ Children(snapshot, "/t/s") # {}
    /\ "/t/s" \notin DOMAIN db
    /\ "/t/s/b" \in DOMAIN db
    /\ db["/t/s/b"] = NodeD
    /\ "/t/a" \in DOMAIN db
    /\ db["/t/a"].t = "F"

\* C20: after a save that stopped part way, the path holds the whole file it
\* held before or the whole file the save would have written, and an open
\* with the passphrase of that file succeeds.
C20_SaveAtomic ==
    last.op = "interrupted" =>
        LET f == disk[last.path]
            whole == save_encrypted(last.obj, last.before, last.pass, "wrap").file
        IN  /\ f \in {last.before, whole}
            /\ f.exists =>
                  \E p \in {last.pass, last.w.pass} :
                      read_decrypted(f, p, "wrap").res = "Ok"

(***************************************************************************)
(* config.rs: gen_config, one step per line of the plain policy file. A    *)
(* string is the sequence of its characters.                               *)
(***************************************************************************)
MaxLines == 3

\* the secrets Config::new can draw (192 random bytes in the program)
Secrets == {1, 2}

\* Config::new: a fresh secret, nothing to scan, nothing to ignore
ConfigNew(secret) == [secret |-> secret, scans |-> <<>>, ignores |-> {}]

\* char::is_whitespace, for the characters of the policy files below
is_whitespace(c) == c \in {" ", "\t", "\n", "\r"}

\* str::trim_start, str::trim_end, str::trim
RECURSIVE trim_start(_)
trim_start(s) ==
    IF s # <<>> /\ is_whitespace(s[1]) THEN trim_start(Tail(s)) ELSE s

RECURSIVE trim_end(_)
trim_end(s) ==
    IF s # <<>> /\ is_whitespace(s[Len(s)])
    THEN trim_end(SubSeq(s, 1, Len(s) - 1))
    ELSE s

trim(s) == trim_end(trim_start(s))

\* str::starts_with(char)
starts_with(s, c) == s # <<>> /\ s[1] = c

\* trim_end_matches stripping every trailing whitespace character, as
\* trim_end does
trim_end_matches_whitespace(s, c) == trim_end(s)

\* str::trim_end_matches(char)
RECURSIVE trim_end_matches(_, _)
trim_end_matches(s, c) ==
    IF s # <<>> /\ s[Len(s)] = c
    THEN trim_end_matches(SubSeq(s, 1, Len(s) - 1), c)
    ELSE s

\* BufRead::read_line: the characters up to and including the first "\n",
\* or all that is left
read_line(buf) ==
    LET ends == {i \in 1..Len(buf) : buf[i] = "\n"}
    IN  IF ends = {} THEN buf
        ELSE SubSeq(buf, 1, CHOOSE i \in ends : \A j \in ends : i <= j)

\* the section headers gen_config matches the line against
ScanHeaders ==
    {<<"[", "S", "C", "A", "N", "]", "\n">>, <<"[", "s", "c", "a", "n", "]", "\n">>}
IgnoreHeaders ==
    {<<"[", "I", "G", "N", "O", "R", "E", "]", "\n">>,
     <<"[", "i", "g", "n", "o", "r", "e", "]", "\n">>}

\* The lines the policy files are made of: the four headers, comments, blank
\* lines, and entries (one with leading white space, one ending in "\r\n").
TerminatedLines ==
    ScanHeaders \cup IgnoreHeaders \cup
    {<<"#", "x", "\n">>, <<" ", "#", "\n">>,
     <<"\n">>, <<" ", "\t", "\n">>,
     <<"/", "t", "\n">>, <<" ", "/", "s", "\n">>, <<"/", "t", "\r", "\n">>}

\* the last line of a file may lack the "\n"
UnterminatedLines ==
    {<<"[", "i", "g", "n", "o", "r", "e", "]">>, <<"/", "a">>}

RECURSIVE Flat(_)
Flat(ls) == IF ls = <<>> THEN <<>> ELSE Head(ls) \o Flat(Tail(ls))

\* the policy files: at most MaxLines lines
PolicyFiles ==
    {Flat(ls) : ls \in UNION {[1..n -> TerminatedLines] : n \in 0..MaxLines}}
    \cup
    {Flat(ls) \o u :
        ls \in UNION {[1..n -> TerminatedLines] : n \in 0..(MaxLines - 1)},
        u \in UnterminatedLines}

\* gen_config has opened infile and made the Config
ConfigInit ==
    /\ disk = [p \in EnvPaths |-> NoFile]
    /\ written = [p \in EnvPaths |->
                     [file |-> NoFile, obj |-> EmptyDb, pass |-> PassEmpty]]
    /\ last = NoOp
    /\ nsaves = 0
    /\ tree = NoTree
    /\ policy = NoPolicy
    /\ dbfile = NoFile
    /\ pc = "cfg"
    /\ run = [cmd |-> "gen_config", pass |-> PassAbc, outcome |-> "running"]
    /\ roots = <<>>
    /\ pathstack = <<>>
    /\ db = EmptyDb
    /\ events = <<>>
    /\ visits = <<>>
    /\ snapshot = NoTree
    /\ genpolicy = NoPolicy
    /\ walk = NoWalk
    /\ infile \in PolicyFiles
    /\ fd = infile
    /\ current_type = "Scan"
    /\ \E secret \in Secrets : config = ConfigNew(secret)

\* one iteration of the while loop of gen_config
GenConfigLine ==
    /\ pc = "cfg"
    /\ fd # <<>>
    /\ LET line == read_line(fd)
       IN  /\ fd' = SubSeq(fd, Len(line) + 1, Len(fd))
           /\ IF starts_with(trim_start(line), "#") \/ trim(line) = <<>> THEN
                  UNCHANGED <<current_type, config>>
              ELSE IF line \in ScanHeaders THEN
                  /\ current_type' = "Scan"
                  /\ UNCHANGED config
              ELSE IF line \in IgnoreHeaders THEN
                  /\ current_type' = "Ignore"
                  /\ UNCHANGED config
              ELSE IF current_type = "Scan" THEN
                  /\ config' = [config EXCEPT !.scans =
                                   Append(@, trim_end_matches(line, "\n"))]
                  /\ UNCHANGED current_type
              ELSE
                  /\ config' = [config EXCEPT !.ignores =
                                   @ \cup {trim_end_matches(line, "\n")}]
                  /\ UNCHANGED current_type
    /\ UNCHANGED infile
    /\ UNCHANGED <<cvars, evars>>

\* gen_config after the last line: save_encrypted(config, outfile, passphrase)
GenConfigSave(outfile, ovf) ==
    /\ pc = "cfg"
    /\ fd = <<>>
    /\ LET r == save_encrypted(config, disk[outfile], run.pass, ovf)
       IN  /\ disk' = [disk EXCEPT ![outfile] = r.file]
           /\ written' = IF r.res = "Ok"
                         THEN [written EXCEPT ![outfile] =
                                  [file |-> r.file, obj |-> config, pass |-> run.pass]]
                         ELSE written
           /\ last' = [op |-> "save", path |-> outfile, pass |-> run.pass,
                       obj |-> config, res |-> r.res, before |-> disk[outfile],
                       w |-> written[outfile]]
           /\ run' = [run EXCEPT !.outcome = r.res]
    /\ nsaves' = nsaves + 1
    /\ pc' = "idle"
    /\ UNCHANGED <<tree, policy, dbfile, roots, pathstack, db, events, visits,
                   snapshot, genpolicy, walk>>
    /\ UNCHANGED gvars

\* get_config(infile, passphrase), once gen_config has returned
GetConfig(path, passphrase, ovf) ==
    /\ pc = "idle"
    /\ ReadDecrypted(path, passphrase, ovf)

ConfigNext ==
    \/ GenConfigLine
    \/ \E outfile \in EnvPaths, ovf \in Overflow : GenConfigSave(outfile, ovf)
    \/ \E path \in EnvPaths, p \in EnginePassphrases, ovf \in Overflow :
          GetConfig(path, p, ovf)

SpecConfig == ConfigInit /\ [][ConfigNext]_vars

(***************************************************************************)
(* Properties of the policy parser.                                        *)
(***************************************************************************)
\* the lines of a text, each with its terminator (the last may have none)
RECURSIVE SplitLines(_)
SplitLines(text) ==
    IF text = <<>> THEN <<>>
    ELSE IF \A i \in 1..Len(text) : text[i] # "\n" THEN <<text>>
    ELSE LET e == CHOOSE i \in 1..Len(text) :
                      text[i] = "\n" /\ \A j \in 1..(i - 1) : text[j] # "\n"
         IN  <<SubSeq(text, 1, e)>> \o SplitLines(SubSeq(text, e + 1, Len(text)))

WhiteSpace == {" ", "\t", "\n", "\r"}

BlankLine(l) == \A i \in 1..Len(l) : l[i] \in WhiteSpace

\* the first character that is not white space is #
CommentLine(l) ==
    \E i \in 1..Len(l) :
        l[i] = "#" /\ \A j \in 1..(i - 1) : l[j] \in WhiteSpace

\* [SCAN] or [scan], [IGNORE] or [ignore], followed by the line terminator
SwitchesToScan(l) ==
    l \in {<<"[", "S", "C", "A", "N", "]", "\n">>, <<"[", "s", "c", "a", "n", "]", "\n">>}
SwitchesToIgnore(l) ==
    l \in {<<"[", "I", "G", "N", "O", "R", "E", "]", "\n">>,
           <<"[", "i", "g", "n", "o", "r", "e", "]", "\n">>}

\* the mode after the first n lines: that of the last header among them,
\* SCAN when there is none
ModeAfter(ls, n) ==
    LET hs == {j \in 1..n : SwitchesToScan(ls[j]) \/ SwitchesToIgnore(ls[j])}
    IN  IF hs = {} THEN "Scan"
        ELSE LET h == CHOOSE j \in hs : \A k \in hs : k <= j
             IN  IF SwitchesToScan(ls[h]) THEN "Scan" ELSE "Ignore"

\* line i contributes an entry
EntryLine(ls, i) ==
    /\ ~BlankLine(ls[i])
    /\ ~CommentLine(ls[i])
    /\ ~SwitchesToScan(ls[i])
    /\ ~SwitchesToIgnore(ls[i])

\* the line without its terminator
Stripped(l) == IF l[Len(l)] = "\n" THEN SubSeq(l, 1, Len(l) - 1) ELSE l

\* the entries of the lines read in mode m, in input order
EntriesIn(ls, m) ==
    LET Keep(i) == EntryLine(ls, i) /\ ModeAfter(ls, i - 1) = m
        idx == SelectSeq([i \in 1..Len(ls) |-> i], Keep)
    IN  [k \in 1..Len(idx) |-> Stripped(ls[idx[k]])]

\* the characters of infile gen_config has read so far
Consumed == SubSeq(infile, 1, Len(infile) - Len(fd))

\* C17: at every point of gen_config, with ls the lines read so far, the
\* mode is the one the last header among them names (SCAN when none), scans
\* holds the entries that followed a SCAN mode, in order, ignores those that
\* followed an IGNORE mode, each with only its "\n" stripped; blank lines,
\* comment lines and headers add nothing; and get_config returns that Config.
C17_PolicyParsing ==
    run.cmd = "gen_config" =>
        LET ls == SplitLines(Consumed)
            ign == EntriesIn(ls, "Ignore")
        IN  /\ current_type = ModeAfter(ls, Len(ls))
            /\ config.scans = EntriesIn(ls, "Scan")
            /\ config.ignores = {ign[k] : k \in 1..Len(ign)}
            /\ (last.op = "read" /\ last.res = "Ok") => last.obj = config

\* get_config has returned the policy of a file of three lines: a comment or
\* a blank line, then [IGNORE], then an entry, which is ignored
C17_Witness ==
    /\ run.cmd = "gen_config"
    /\ last.op = "read"
    /\ last.res = "Ok"
    /\ Len(SplitLines(infile)) = 3
    /\ LET ls == SplitLines(infile)
       IN  /\ BlankLine(ls[1]) \/ CommentLine(ls[1])
           /\ SwitchesToIgnore(ls[2])
           /\ EntryLine(ls, 3)
    /\ last.obj.scans = <<>>
    /\ last.obj.ignores = {<<"/", "t", "\r">>}

(***************************************************************************)
(* The engine under a policy that carries a secret (config.rs Config).     *)
(***************************************************************************)
\* the Config get_config returns: one root, nothing ignored, and the secret
\* its gen_config drew
KeyedPolicy(secret) == [secret |-> secret, scans |-> <<"/t">>, ignores |-> {}]

KeyedInit ==
    /\ disk = [p \in EnvPaths |-> NoFile]
    /\ written = [p \in EnvPaths |->
                     [file |-> NoFile, obj |-> EmptyDb, pass |-> PassEmpty]]
    /\ last = NoOp
    /\ nsaves = 0
    /\ tree \in Trees
    /\ \E secret \in Secrets : policy = KeyedPolicy(secret)
    /\ dbfile = NoFile
    /\ pc = "idle"
    /\ run = NoRun
    /\ roots = <<>>
    /\ pathstack = <<>>
    /\ db = EmptyDb
    /\ events = <<>>
    /\ visits = <<>>
    /\ snapshot = NoTree
    /\ genpolicy = NoPolicy
    /\ walk = NoWalk
    /\ infile = <<>>
    /\ fd = <<>>
    /\ current_type = "Scan"
    /\ config = NoPolicy

\* Between gen_db and compare_db the policy is created again from the same
\* plain file: Config::new draws another secret (gen_new_secret), and the
\* next command gets that Config.
NewSecret(secret) ==
    /\ pc = "idle"
    /\ dbfile.exists
    /\ run.cmd = "gen_db"
    /\ run.outcome = "Ok"
    /\ secret # policy.secret
    /\ policy' = [policy EXCEPT !.secret = secret]
    /\ UNCHANGED <<tree, dbfile, pc, run, roots, pathstack, db, events, visits,
                   snapshot, genpolicy, walk>>
    /\ UNCHANGED <<cvars, gvars>>

KeyedNext ==
    \/ EngineNext
    \/ \E secret \in Secrets : NewSecret(secret)

SpecKeyed == KeyedInit /\ [][KeyedNext]_vars

\* C16: when compare_db runs under a policy whose secret differs from that of
\* the policy gen_db ran under, every regular file recorded by gen_db and not
\* touched since is reported HASH CHANGED: its hash under the other secret
\* differs from the recorded one.
C16_KeyedHash ==
    (run.cmd = "compare_db" /\ dbfile.exists /\ policy.secret # genpolicy.secret) =>
        \A i \in 1..Len(visits) :
            LET v == visits[i]
            IN  (/\ v.kind = "File"
                 /\ v.popped.t = "F"
                 /\ tree[v.path].k = "file"
                 /\ tree[v.path] = snapshot[v.path]) =>
                    v.msg = "HASH CHANGED"

(***************************************************************************)
(* tripwirs.rs: the walk of one root, from the call of scan_path /         *)
(* compare_path to its return.                                             *)
(***************************************************************************)
\* the loop of scan_path / compare_path keeps running until it returns
SpecEngineFair ==
    /\ EngineInit
    /\ [][EngineNext]_vars
    /\ WF_vars(ScanStep)
    /\ WF_vars(CompareStep)

\* the entries popped since scan_path / compare_path was last entered
WalkVisits == SubSeq(visits, walk.start + 1, Len(visits))

\* how many times that call popped path p
Pops(p) == Cardinality({i \in 1..Len(WalkVisits) : WalkVisits[i].path = p})

\* a directory the walk descends through: not ignored, and readable
Passable(tr, ignores, p) == p \notin ignores /\ tr[p].k = "dir" /\ tr[p].r

\* the paths reachable from p without passing through an ignored or
\* unreadable directory
RECURSIVE ReachableFrom(_, _, _)
ReachableFrom(tr, ignores, p) ==
    {p} \cup (IF Passable(tr, ignores, p)
              THEN UNION {ReachableFrom(tr, ignores, q) : q \in Children(tr, p)}
              ELSE {})

\* the call of scan_path / compare_path last entered has returned, with Ok or
\* with the error of get_filehash
WalkOver ==
    /\ walk # NoWalk
    /\ pathstack = <<>>
    /\ pc \in {"gen", "cmp"} \/ run.outcome = "IoError"

\* no path is popped twice by one call, and when the call has returned every
\* path reachable from its root, not ignored, was popped once
EachPoppedOnce ==
    /\ \A p \in TreePaths : Pops(p) <= 1
    /\ WalkOver =>
           \A p \in ReachableFrom(tree, policy.ignores, walk.root) \ policy.ignores :
               Pops(p) = 1

\* C21: for every tree and every root the walk of scan_path / compare_path
\* terminates (a stack that holds a path is eventually empty), and every
\* path reachable from the root without passing through an ignored or
\* unreadable directory, and not ignored itself, is popped and classified
\* exactly once during that walk.
C21_WalkTerminatesEachOnce ==
    /\ []EachPoppedOnce
    /\ (pathstack # <<>>) ~> (pathstack = <<>>)

====
